---- MODULE Spec2Model ----
(***************************************************************************)
(* ml_utils/classification.py: plotting and threshold-selection helpers.   *)
(*                                                                         *)
(* The module's functions are stateless; the only state that outlives a    *)
(* call is the plotting library's: the surfaces (matplotlib Axes) created  *)
(* so far, what is drawn on each, and pyplot's current surface.  A label   *)
(* vector is a sequence of integers, a score an integer (a probability in  *)
(* units of 1/MaxScore), a rate a pair numerator/denominator whose         *)
(* denominator 0 stands for NaN.  Positions are 1-based here and 0-based   *)
(* in the source: position i+1 of a sequence is the source's index i.      *)
(***************************************************************************)
EXTENDS Integers, Sequences, FiniteSets, TLC

VARIABLES axes, current, call, ncalls

vars == <<axes, current, call, ncalls>>

-----------------------------------------------------------------------------
(* Bounds of the model.                                                    *)

\* samples in a binary label/score vector
MaxLen == 3
\* scores are 0..MaxScore
MaxScore == 2
\* fpr_below and tpr_above range over k/RateDen, k in 0..RateDen
RateDen == 2
\* samples in a multi-class label vector
MCLen == 4
\* multi-class labels are 0..MCMaxLabel
MCMaxLabel == 3
\* columns of a multi-class probability table
MaxCols == 4
\* display names passed to confusion_matrix_visual
MaxNames == 3
\* surfaces the caller creates itself before calling
MaxOwned == 1
\* calls in one session
MaxCalls == 3

\* plt.subplots(row_count, 3): columns of the precision-recall grid
GridCols == 3

\* 0 and 1 are the labels the binary metrics accept without pos_label;
\* 2 stands for any other label value
LabelValues == {0, 1, 2}

Scores == 0..MaxScore

SeqsUpTo(S, n) == UNION {[1..k -> S] : k \in 1..n}

-----------------------------------------------------------------------------
(* numpy / pandas helpers.                                                 *)

RECURSIVE UniqueFrom(_, _)
UniqueFrom(s, acc) ==
    IF s = <<>> THEN acc
    ELSE IF \E i \in 1..Len(acc) : acc[i] = Head(s)
         THEN UniqueFrom(Tail(s), acc)
         ELSE UniqueFrom(Tail(s), Append(acc, Head(s)))

\* Series.unique(): the distinct values in order of first appearance
Unique(s) == UniqueFrom(s, <<>>)

RECURSIVE InsertAsc(_, _)
InsertAsc(x, s) ==
    IF s = <<>> THEN <<x>>
    ELSE IF x <= Head(s) THEN <<x>> \o s
         ELSE <<Head(s)>> \o InsertAsc(x, Tail(s))

RECURSIVE SortAsc(_)
SortAsc(s) == IF s = <<>> THEN <<>> ELSE InsertAsc(Head(s), SortAsc(Tail(s)))

\* np.sort(y_test.unique())
ClassLabels(y) == SortAsc(Unique(y))

\* np.where(y_test == class_label, 1, 0)
Binarize(y, class_label) == [j \in 1..Len(y) |-> IF y[j] = class_label THEN 1 ELSE 0]

RECURSIVE Sum(_)
Sum(s) == IF s = <<>> THEN 0 ELSE Head(s) + Sum(Tail(s))

\* sum(y_test == class_label)
CountEq(y, class_label) == Sum(Binarize(y, class_label))

-----------------------------------------------------------------------------
(* sklearn.metrics.roc_curve, as find_threshold calls it (pos_label=None,  *)
(* drop_intermediate=True).                                                *)

\* without pos_label the labels must be among {0, 1}; otherwise ValueError
BinaryCurveRaises(y) == \E j \in 1..Len(y) : y[j] \notin {0, 1}

RECURSIVE InsertDesc(_, _)
InsertDesc(x, s) ==
    IF s = <<>> THEN <<x>>
    ELSE IF x.score >= Head(s).score THEN <<x>> \o s
         ELSE <<Head(s)>> \o InsertDesc(x, Tail(s))

RECURSIVE SortDesc(_)
SortDesc(s) == IF s = <<>> THEN <<>> ELSE InsertDesc(Head(s), SortDesc(Tail(s)))

\* the samples ordered by decreasing score
ByScore(y, p) == SortDesc([j \in 1..Len(y) |-> [score |-> p[j], label |-> y[j]]])

RECURSIVE Pick(_, _)
\* s[mask]: the entries of s at the positions where mask is TRUE
Pick(s, mask) ==
    IF s = <<>> THEN <<>>
    ELSE (IF Head(mask) THEN <<Head(s)>> ELSE <<>>) \o Pick(Tail(s), Tail(mask))

\* _binary_clf_curve: one point per distinct score, cumulative counts
BinaryClfCurve(y, p) ==
    LET s    == ByScore(y, p)
        n    == Len(s)
        last == [i \in 1..n |-> i = n \/ s[i].score # s[i + 1].score]
        tpsAll == [i \in 1..n |-> Sum([j \in 1..i |-> s[j].label])]
        fpsAll == [i \in 1..n |-> i - tpsAll[i]]
    IN  [fps |-> Pick(fpsAll, last),
         tps |-> Pick(tpsAll, last),
         thresholds |-> Pick([i \in 1..n |-> s[i].score], last)]

\* drop_intermediate: keep the ends and the points where the curve bends
DropIntermediate(c) ==
    LET n == Len(c.fps)
        keep == [k \in 1..n |->
                    \/ k = 1
                    \/ k = n
                    \/ c.fps[k + 1] - 2 * c.fps[k] + c.fps[k - 1] # 0
                    \/ c.tps[k + 1] - 2 * c.tps[k] + c.tps[k - 1] # 0]
    IN  IF n > 2
        THEN [fps |-> Pick(c.fps, keep), tps |-> Pick(c.tps, keep),
              thresholds |-> Pick(c.thresholds, keep)]
        ELSE c

\* the threshold prepended so that the curve starts at (0, 0): np.inf
Inf == MaxScore + 1

\* roc_curve(y, p): fpr[k] = fps[k]/neg and tpr[k] = tps[k]/pos, NaN when
\* the denominator is 0
RocCurve(y, p) ==
    LET c == DropIntermediate(BinaryClfCurve(y, p))
        n == Len(c.fps)
    IN  [fps |-> <<0>> \o c.fps,
         tps |-> <<0>> \o c.tps,
         thresholds |-> <<Inf>> \o c.thresholds,
         neg |-> c.fps[n],
         pos |-> c.tps[n]]

\* fpr[k] <= fpr_below, with fpr_below = cap/RateDen (NaN <= x is False)
FprLe(c, k, cap) == c.neg > 0 /\ c.fps[k] * RateDen <= cap * c.neg

\* tpr[k] >= tpr_above, with tpr_above = floor/RateDen (NaN >= x is False)
TprGe(c, k, floor) == c.pos > 0 /\ c.tps[k] * RateDen >= floor * c.pos

\* (fpr < fpr_below) & (tpr >= tpr_above)
ThresholdMaskStrict(c, cap, floor) ==
    [k \in 1..Len(c.thresholds) |->
        (c.neg > 0 /\ c.fps[k] * RateDen < cap * c.neg) /\ TprGe(c, k, floor)]

\* (fpr <= fpr_below) | (tpr >= tpr_above)
ThresholdMaskOr(c, cap, floor) ==
    [k \in 1..Len(c.thresholds) |-> FprLe(c, k, cap) \/ TprGe(c, k, floor)]

\* (fpr <= fpr_below) & (tpr >= tpr_above)
ThresholdMask(c, cap, floor) ==
    [k \in 1..Len(c.thresholds) |-> FprLe(c, k, cap) /\ TprGe(c, k, floor)]

\* thresholds[(fpr <= fpr_below) | (tpr >= tpr_above)]
FindThresholdResultOr(y, p, cap, floor) ==
    LET c == RocCurve(y, p) IN Pick(c.thresholds, ThresholdMaskOr(c, cap, floor))

\* thresholds[(fpr <= fpr_below) & (tpr >= tpr_above)]: the value
\* find_threshold returns when roc_curve does not raise
FindThresholdResult(y, p, cap, floor) ==
    LET c == RocCurve(y, p) IN Pick(c.thresholds, ThresholdMask(c, cap, floor))

-----------------------------------------------------------------------------
(* The plotting library's state.                                           *)

\* a surface nothing has been drawn on; cls is the class a title names
Blank ==
    [lines |-> <<>>, texts |-> <<>>, title |-> "", cls |-> -1, xlabel |-> "",
     ylabel |-> "", legend |-> FALSE, limits |-> FALSE, heat |-> <<>>,
     annot |-> <<>>, cbar |-> FALSE, xticks |-> <<>>, xticklabels |-> <<>>,
     yticks |-> <<>>, yticklabels |-> <<>>, deleted |-> FALSE]

\* ax.plot([0, 1], [0, 1], ..., label='baseline')
Diag == [kind |-> "diag", cls |-> -1, y_true |-> <<>>, y_score |-> <<>>,
         num |-> 0, den |-> 0]

\* ax.plot(fpr, tpr, ...) of roc_curve(y_true, y_score); cls is the class the
\* legend names, -1 for the binary plot's 'model'
RocLine(cls, y_true, y_score) ==
    [kind |-> "roc", cls |-> cls, y_true |-> y_true, y_score |-> y_score,
     num |-> 0, den |-> 0]

\* axes.plot(recall, precision, ...) of precision_recall_curve(y_true, y_score)
PrLine(cls, y_true, y_score) ==
    [kind |-> "pr", cls |-> cls, y_true |-> y_true, y_score |-> y_score,
     num |-> 0, den |-> 0]

\* axes.axhline(num/den, ..., label='baseline')
HLine(rate) == [kind |-> "hline", cls |-> -1, y_true |-> <<>>, y_score |-> <<>>,
                num |-> rate[1], den |-> rate[2]]

NoCall == [fn |-> "none", outcome |-> "none"]

Init ==
    /\ axes = <<>>
    /\ current = 0
    /\ call = NoCall
    /\ ncalls = 0

\* the caller's own fig, ax = plt.subplots()
CallerSubplots ==
    /\ ncalls = 0
    /\ Len(axes) < MaxOwned
    /\ axes' = Append(axes, Blank)
    /\ current' = Len(axes) + 1
    /\ UNCHANGED <<call, ncalls>>

-----------------------------------------------------------------------------
(* find_threshold                                                          *)

FindThreshold(y, p, cap, floor) ==
    /\ call' = IF BinaryCurveRaises(y)
               THEN [fn |-> "find_threshold", y |-> y, p |-> p, cap |-> cap,
                     floor |-> floor, outcome |-> "error", ret |-> <<>>]
               ELSE [fn |-> "find_threshold", y |-> y, p |-> p, cap |-> cap,
                     floor |-> floor, outcome |-> "returned",
                     ret |-> FindThresholdResult(y, p, cap, floor)]
    /\ ncalls' = ncalls + 1
    /\ UNCHANGED <<axes, current>>

CallFindThreshold ==
    /\ ncalls = 0
    /\ \E n \in 1..MaxLen :
         \E y \in [1..n -> LabelValues], p \in [1..n -> Scores] :
           \E cap \in 0..RateDen, floor \in 0..RateDen :
             FindThreshold(y, p, cap, floor)

-----------------------------------------------------------------------------
(* confusion_matrix_visual                                                 *)

\* sklearn's unique_labels: the sorted labels of y_true and y_pred together
UnionLabels(y_true, y_pred) == SortAsc(Unique(y_true \o y_pred))

\* the number of samples with true label a and predicted label p
CountPairs(y_true, y_pred, a, p) ==
    Cardinality({s \in 1..Len(y_true) : y_true[s] = a /\ y_pred[s] = p})

\* sklearn's confusion_matrix over its sorted labels: row = true class,
\* column = predicted class
MatrixOver(y_true, y_pred, labels) ==
    [i \in 1..Len(labels) |-> [j \in 1..Len(labels) |->
        CountPairs(y_true, y_pred, labels[i], labels[j])]]

\* confusion_matrix(y_true, y_pred)
ConfusionMatrix(y_true, y_pred) ==
    MatrixOver(y_true, y_pred, UnionLabels(y_true, y_pred))

\* mat, not transposed
NoTranspose(mat) == mat

\* mat.T
Transpose(mat) == [i \in 1..Len(mat) |-> [j \in 1..Len(mat) |-> mat[j][i]]]

\* np.arange(n) + 0.5, in units of 1/2
HalfTicks(n) == [i \in 1..n |-> 2 * (i - 1) + 1]

\* np.arange(len(class_labels) + 1) + 0.5
TickMarksOneMore(class_labels) == HalfTicks(Len(class_labels) + 1)

\* np.arange(len(class_labels)) + 0.5
TickMarks(class_labels) == HalfTicks(Len(class_labels))

\* the cells seaborn annotates, row by row
Annotations(data) ==
    LET n == Len(data)
    IN  [k \in 1..(n * n) |->
            [row |-> ((k - 1) \div n) + 1, col |-> ((k - 1) % n) + 1,
             text |-> data[((k - 1) \div n) + 1][((k - 1) % n) + 1]]]

\* sns.heatmap(data, square=True, annot=True, fmt='d', cbar=True, ax=...) on
\* surface s: the mesh, one annotation per cell, seaborn's own ticks (the
\* column and row indices) and the colorbar
Heatmap(s, data) ==
    [s EXCEPT !.heat = data,
              !.annot = s.annot \o Annotations(data),
              !.cbar = TRUE,
              !.xticks = HalfTicks(Len(data)),
              !.xticklabels = [i \in 1..Len(data) |-> i - 1],
              !.yticks = HalfTicks(Len(data)),
              !.yticklabels = [i \in 1..Len(data) |-> i - 1],
              !.xlabel = "",
              !.ylabel = ""]

\* the call raises when a library call in it raises, or when the data holds
\* more classes than class_labels names
CmvRaisesOnFewNames(y_true, y_pred, class_labels) ==
    \/ Len(y_true) # Len(y_pred)
    \/ Len(UnionLabels(y_true, y_pred)) > Len(class_labels)

\* the call raises when a library call in it raises: confusion_matrix on
\* vectors of different lengths.  set_xticklabels and set_yticklabels get as
\* many labels as set_xticks and set_yticks set ticks, and do not raise.
CmvRaises(y_true, y_pred, class_labels) == Len(y_true) # Len(y_pred)

\* lines 27-38 on surface s, mat the confusion matrix of line 26
CmvDraw(s, mat, class_labels, title) ==
    LET h == Heatmap(s, Transpose(mat))
    IN  [h EXCEPT !.xlabel = "Actual",
                  !.ylabel = "Model Prediction",
                  !.xticks = TickMarks(class_labels),
                  !.xticklabels = class_labels,
                  !.yticks = TickMarks(class_labels),
                  !.yticklabels = class_labels,
                  !.title = IF title = "" THEN "Confusion Matrix" ELSE title]

\* ax = 0 is ax=None: seaborn then draws on plt.gca(), pyplot's current
\* surface, which is created when there is none
ConfusionMatrixVisual(y_true, y_pred, class_labels, ax, title) ==
    LET create == ax = 0 /\ current = 0
        reg    == IF create THEN Append(axes, Blank) ELSE axes
        target == IF ax # 0 THEN ax
                  ELSE IF current # 0 THEN current ELSE Len(axes) + 1
        args   == [fn |-> "confusion_matrix_visual", y_true |-> y_true,
                   y_pred |-> y_pred, class_labels |-> class_labels,
                   ax |-> ax, title |-> title]
    IN  /\ ncalls' = ncalls + 1
        /\ IF CmvRaises(y_true, y_pred, class_labels)
           THEN /\ call' = args @@ [outcome |-> "error", ret |-> 0]
                /\ UNCHANGED <<axes, current>>
           ELSE /\ \E mat \in {ConfusionMatrix(y_true, y_pred)} :
                     axes' = [reg EXCEPT ![target] =
                                CmvDraw(reg[target], mat, class_labels, title)]
                /\ current' = IF create THEN target ELSE current
                /\ call' = args @@ [outcome |-> "returned", ret |-> target]

\* display names are told apart by their position only
DisplayNames(m) == [i \in 1..m |-> i]

\* the predictions passed with y_true: a vector of the same length, or one
\* with a sample more or a sample fewer, on which confusion_matrix raises
PredictionsFor(y_true) ==
    [1..Len(y_true) -> LabelValues]
        \cup {Append(y_true, 0)}
        \cup (IF Len(y_true) > 1 THEN {Tail(y_true)} ELSE {})

CallConfusionMatrixVisual ==
    /\ ncalls = 0
    /\ \E y_true \in SeqsUpTo(LabelValues, MaxLen) :
         \E y_pred \in PredictionsFor(y_true) :
           \E m \in 0..MaxNames, ax \in 0..Len(axes), title \in {"", "custom"} :
             ConfusionMatrixVisual(y_true, y_pred, DisplayNames(m), ax, title)

-----------------------------------------------------------------------------
(* plot_roc                                                                *)

\* a surface is created whatever the caller passes
NeedsNewSurfaceAlways(ax) == TRUE

\* `if not ax`: ax = 0 is ax=None; a surface the caller passes is truthy
NeedsNewSurface(ax) == ax = 0

\* the registry after `if not ax: fig, ax = plt.subplots(1, 1)`
Registry(ax) == IF NeedsNewSurface(ax) THEN Append(axes, Blank) ELSE axes

\* the surface drawn on after `if not ax: fig, ax = plt.subplots(1, 1)`
Target(ax) == IF NeedsNewSurface(ax) THEN Len(axes) + 1 ELSE ax

\* lines 73-79 on surface s
PlotRocDraw(s, y, p) ==
    [s EXCEPT !.lines = s.lines \o <<Diag, RocLine(-1, y, p)>>,
              !.legend = TRUE,
              !.title = "ROC curve",
              !.xlabel = "False Positive Rate (FPR)",
              !.ylabel = "True Positive Rate (TPR)",
              !.texts = Append(s.texts, "AUC")]

\* roc_curve raises, if it does, after the surface was created
PlotRoc(y, p, ax) ==
    LET reg    == Registry(ax)
        target == Target(ax)
        args   == [fn |-> "plot_roc", y |-> y, p |-> p, ax |-> ax]
    IN  /\ ncalls' = ncalls + 1
        /\ current' = IF NeedsNewSurface(ax) THEN target ELSE current
        /\ IF BinaryCurveRaises(y)
           THEN /\ axes' = reg
                /\ call' = args @@ [outcome |-> "error", ret |-> 0]
           ELSE /\ axes' = [reg EXCEPT ![target] = PlotRocDraw(reg[target], y, p)]
                /\ call' = args @@ [outcome |-> "returned", ret |-> target]

CallPlotRoc ==
    /\ ncalls = 0
    /\ \E n \in 1..MaxLen :
         \E y \in [1..n -> LabelValues], p \in [1..n -> Scores], ax \in 0..Len(axes) :
           PlotRoc(y, p, ax)

-----------------------------------------------------------------------------
(* plot_pr_curve                                                           *)

\* sum(y_test == 1)/len(y_test): the prevalence of label 1
PrevalenceOfOne(y, class_label) == <<CountEq(y, 1), Len(y)>>

\* sum(y_test == class_label)/len(y_test), as numerator and denominator
Prevalence(y, class_label) == <<CountEq(y, class_label), Len(y)>>

\* average_precision_score(y_test, preds, pos_label=positive_class) raises
\* when two labels are present and positive_class is neither
ApRaises(y, positive_class) ==
    /\ Cardinality({y[j] : j \in 1..Len(y)}) = 2
    /\ \A j \in 1..Len(y) : y[j] # positive_class

\* lines 98-101 on surface s
PlotPrLines(s, y, p, positive_class) ==
    [s EXCEPT !.lines = s.lines \o <<HLine(Prevalence(y, positive_class)),
                                     PrLine(-1, y, p)>>,
              !.legend = TRUE]

\* lines 102-113 on surface s
PlotPrLabels(s) ==
    [s EXCEPT !.title = "Precision-recall curve",
              !.xlabel = "Recall",
              !.ylabel = "Precision",
              !.limits = TRUE]

\* precision_recall_curve raises, if it does, before the surface is created;
\* average_precision_score after the lines and the legend are drawn
PlotPrCurve(y, p, positive_class) ==
    LET target == Len(axes) + 1
        args   == [fn |-> "plot_pr_curve", y |-> y, p |-> p,
                   positive_class |-> positive_class]
        drawn  == PlotPrLines(Blank, y, p, positive_class)
    IN  /\ ncalls' = ncalls + 1
        /\ IF BinaryCurveRaises(y)
           THEN /\ call' = args @@ [outcome |-> "error", ret |-> 0]
                /\ UNCHANGED <<axes, current>>
           ELSE /\ current' = target
                /\ IF ApRaises(y, positive_class)
                   THEN /\ axes' = Append(axes, drawn)
                        /\ call' = args @@ [outcome |-> "error", ret |-> 0]
                   ELSE /\ axes' = Append(axes, PlotPrLabels(drawn))
                        /\ call' = args @@ [outcome |-> "returned", ret |-> target]

CallPlotPrCurve ==
    /\ ncalls = 0
    /\ \E n \in 1..MaxLen :
         \E y \in [1..n -> LabelValues], p \in [1..n -> Scores],
            positive_class \in LabelValues :
           PlotPrCurve(y, p, positive_class)

-----------------------------------------------------------------------------
(* The multi-class inputs.                                                 *)

\* a probability table of n rows and m columns whose columns differ from
\* one another: row r, column c holds c + s * r
Table(n, m, s) == [r \in 1..n |-> [c \in 1..m |-> c + s * r]]

NumCols(preds) == Len(preds[1])

\* preds[:, 0] whatever i is
FirstColumn(preds, i) == [r \in 1..Len(preds) |-> preds[r][1]]

\* preds[:, i], for the source's i = position - 1
Column(preds, i) == [r \in 1..Len(preds) |-> preds[r][i]]

\* the classes the loop reaches before preds[:, i] raises IndexError
Reached(K, preds) == IF K <= NumCols(preds) THEN K ELSE NumCols(preds)

-----------------------------------------------------------------------------
(* plot_multi_class_roc                                                    *)

\* lines 131-138: the baseline, then one curve per class the loop reaches
MultiRocLines(y, preds) ==
    LET class_labels == ClassLabels(y)
    IN  <<Diag>> \o
        [i \in 1..Reached(Len(class_labels), preds) |->
            RocLine(class_labels[i], Binarize(y, class_labels[i]), Column(preds, i))]

\* lines 139-142 on surface s
MultiRocLabels(s) ==
    [s EXCEPT !.legend = TRUE,
              !.title = "Multi-class ROC curve",
              !.xlabel = "False Positive Rate (FPR)",
              !.ylabel = "True Positive Rate (TPR)"]

PlotMultiClassRoc(y, preds, ax) ==
    LET reg    == Registry(ax)
        target == Target(ax)
        args   == [fn |-> "plot_multi_class_roc", y |-> y, preds |-> preds, ax |-> ax]
        drawn  == [reg[target] EXCEPT !.lines = @ \o MultiRocLines(y, preds)]
    IN  /\ ncalls' = ncalls + 1
        /\ current' = IF NeedsNewSurface(ax) THEN target ELSE current
        /\ IF Len(ClassLabels(y)) > NumCols(preds)
           THEN /\ axes' = [reg EXCEPT ![target] = drawn]
                /\ call' = args @@ [outcome |-> "error", ret |-> 0]
           ELSE /\ axes' = [reg EXCEPT ![target] = MultiRocLabels(drawn)]
                /\ call' = args @@ [outcome |-> "returned", ret |-> target]

CallPlotMultiClassRoc ==
    /\ ncalls = 0
    /\ \E y \in SeqsUpTo(0..MCMaxLabel, MCLen) :
         \E m \in 1..MaxCols, s \in {0, 1}, ax \in 0..Len(axes) :
           PlotMultiClassRoc(y, Table(Len(y), m, s), ax)

-----------------------------------------------------------------------------
(* plot_multi_class_pr_curve                                               *)

\* len(class_labels) // 3 + 1
RowCountPlusOne(K) == K \div GridCols + 1

\* np.ceil(len(class_labels) / 3).astype(int)
RowCount(K) == (K + GridCols - 1) \div GridCols

\* range(len(class_labels) - 1, len(axes)), as positions
DeletedCellsFromLast(K, cells) == K..cells

\* range(len(class_labels), len(axes)), as positions
DeletedCells(K, cells) == (K + 1)..cells

\* lines 167-181 on cell s for the class at position i: the baseline is
\* drawn before preds[:, i] is read
PrCellDraw(s, y, preds, class_labels, i) ==
    LET base == [s EXCEPT !.lines = @ \o <<HLine(Prevalence(y, class_labels[i]))>>]
    IN  IF i > NumCols(preds)
        THEN base
        ELSE [base EXCEPT
                !.lines = @ \o <<PrLine(class_labels[i], Binarize(y, class_labels[i]),
                                        Column(preds, i))>>,
                !.legend = TRUE,
                !.title = "Precision-recall curve: class",
                !.cls = class_labels[i],
                !.xlabel = "Recall",
                !.ylabel = "Precision",
                !.limits = TRUE]

\* the cells of the grid, flattened, after lines 159-181
PrGrid(y, preds, class_labels) ==
    LET K     == Len(class_labels)
        cells == RowCount(K) * GridCols
        last  == IF K <= NumCols(preds) THEN K ELSE NumCols(preds) + 1
        gone  == DeletedCells(K, cells)
    IN  [i \in 1..cells |->
            LET made == [Blank EXCEPT !.deleted = i \in gone]
            IN  IF i <= last THEN PrCellDraw(made, y, preds, class_labels, i) ELSE made]

\* the position of the last cell of the grid that was not deleted, 0 if none
LastLive(grid) ==
    LET live == {i \in 1..Len(grid) : ~grid[i].deleted}
    IN  IF live = {} THEN 0 ELSE CHOOSE i \in live : \A j \in live : j <= i

\* pyplot's current surface is the last cell that was not deleted
PlotMultiClassPrCurve(y, preds) ==
    \E class_labels \in {ClassLabels(y)} :
      \E grid \in {PrGrid(y, preds, class_labels)} :
        LET args == [fn |-> "plot_multi_class_pr_curve", y |-> y, preds |-> preds,
                     first |-> Len(axes)]
        IN  /\ ncalls' = ncalls + 1
            /\ axes' = axes \o grid
            /\ current' = IF LastLive(grid) = 0 THEN current
                          ELSE Len(axes) + LastLive(grid)
            /\ call' = IF Len(class_labels) > NumCols(preds)
                       THEN args @@ [outcome |-> "error", ret |-> <<>>]
                       ELSE args @@ [outcome |-> "returned",
                                     ret |-> [i \in 1..Len(grid) |-> Len(axes) + i]]

CallPlotMultiClassPrCurve ==
    /\ ncalls = 0
    /\ \E y \in SeqsUpTo(0..MCMaxLabel, MCLen) :
         \E m \in 1..MaxCols, s \in {0, 1} :
           PlotMultiClassPrCurve(y, Table(Len(y), m, s))

-----------------------------------------------------------------------------
(* A session: several calls of the two ROC plots, one after another, on   *)
(* surfaces of the caller's or of earlier calls.                           *)

\* label and score vectors for plot_roc; roc_curve raises on the last
RocInputs ==
    {[y |-> <<1, 0>>, p |-> <<2, 0>>],
     [y |-> <<0, 1, 1>>, p |-> <<1, 1, 2>>],
     [y |-> <<0, 2>>, p |-> <<0, 1>>]}

\* label vectors and tables for plot_multi_class_roc; the last has fewer
\* columns than classes
MultiRocInputs ==
    {[y |-> <<2, 0, 1>>, preds |-> Table(3, 3, 1)],
     [y |-> <<1, 1>>, preds |-> Table(2, 2, 0)],
     [y |-> <<0, 3>>, preds |-> Table(2, 1, 0)]}

SessionPlotRoc ==
    /\ ncalls < MaxCalls
    /\ \E d \in RocInputs, ax \in 0..Len(axes) : PlotRoc(d.y, d.p, ax)

SessionPlotMultiClassRoc ==
    /\ ncalls < MaxCalls
    /\ \E d \in MultiRocInputs, ax \in 0..Len(axes) :
         PlotMultiClassRoc(d.y, d.preds, ax)

Next ==
    \/ CallerSubplots
    \/ CallFindThreshold
    \/ CallConfusionMatrixVisual
    \/ CallPlotRoc
    \/ CallPlotPrCurve
    \/ CallPlotMultiClassRoc
    \/ CallPlotMultiClassPrCurve

\* one call of one function, on nothing or on a surface of the caller's
Spec == Init /\ [][Next]_vars

(* The same, one function at a time.  find_threshold neither takes nor     *)
(* creates a surface.                                                      *)

FindThresholdSpec == Init /\ [][CallFindThreshold]_vars

ConfusionNext == CallerSubplots \/ CallConfusionMatrixVisual

ConfusionSpec == Init /\ [][ConfusionNext]_vars

PlotPrNext == CallerSubplots \/ CallPlotPrCurve

PlotPrSpec == Init /\ [][PlotPrNext]_vars

MultiRocNext == CallerSubplots \/ CallPlotMultiClassRoc

MultiRocSpec == Init /\ [][MultiRocNext]_vars

MultiPrNext == CallerSubplots \/ CallPlotMultiClassPrCurve

MultiPrSpec == Init /\ [][MultiPrNext]_vars

SessionNext ==
    \/ CallerSubplots
    \/ SessionPlotRoc
    \/ SessionPlotMultiClassRoc

SessionSpec == Init /\ [][SessionNext]_vars

-----------------------------------------------------------------------------
(* Properties.                                                             *)

\* the distinct values of a vector, and the i-th smallest of a set
Values(y) == {y[j] : j \in 1..Len(y)}

Nth(S, i) == CHOOSE c \in S : Cardinality({l \in S : l < c}) = i - 1

\* the elements of a set of numbers in ascending order
Ascending(S) == [i \in 1..Cardinality(S) |-> Nth(S, i)]

\* point k of curve c has FPR <= cap/RateDen and TPR >= floor/RateDen
Qualifies(c, k, cap, floor) ==
    /\ c.neg # 0
    /\ c.fps[k] * RateDen <= cap * c.neg
    /\ c.pos # 0
    /\ c.tps[k] * RateDen >= floor * c.pos

IsFindThreshold == call.fn = "find_threshold"

\* C1: what find_threshold returns is exactly the thresholds of
\* roc_curve(y, p) whose FPR is at most the cap and whose TPR is at least the
\* floor: every returned value is a threshold of the curve at a point that
\* meets both, every threshold of the curve that is not returned is at a
\* point that misses one, and the values come in the curve's order.
C1_ExactlyQualifying ==
    (IsFindThreshold /\ call.outcome = "returned") =>
        \A c \in {RocCurve(call.y, call.p)}, R \in {Values(call.ret)} :
            /\ \A i \in 1..Len(call.ret) :
                  \E k \in 1..Len(c.thresholds) :
                      /\ c.thresholds[k] = call.ret[i]
                      /\ Qualifies(c, k, call.cap, call.floor)
            /\ \A k \in 1..Len(c.thresholds) :
                  c.thresholds[k] \notin R => ~Qualifies(c, k, call.cap, call.floor)
            /\ \A i \in 1..Len(call.ret), j \in 1..Len(call.ret) :
                  i < j => call.ret[i] > call.ret[j]

\* some thresholds of the curve were returned and some were not
C1_Witness ==
    /\ IsFindThreshold
    /\ call.outcome = "returned"
    /\ Len(call.ret) >= 1
    /\ Len(call.ret) < Len(RocCurve(call.y, call.p).thresholds) - 1

\* C2: when roc_curve yields a curve and no point of it meets both
\* constraints, find_threshold returns the empty sequence and does not raise.
C2_EmptyWhenNoneQualifies ==
    (IsFindThreshold /\ ~BinaryCurveRaises(call.y)) =>
        \A c \in {RocCurve(call.y, call.p)} :
            (\A k \in 1..Len(c.thresholds) : ~Qualifies(c, k, call.cap, call.floor))
            => (call.outcome = "returned" /\ call.ret = <<>>)

\* no point meets both constraints although one meets the cap and another
\* meets the floor
C2_Witness ==
    /\ IsFindThreshold
    /\ call.outcome = "returned"
    /\ call.ret = <<>>
    /\ LET c == RocCurve(call.y, call.p)
       IN  /\ c.neg > 0
           /\ c.pos > 0
           /\ \E k \in 2..Len(c.thresholds) : c.fps[k] * RateDen <= call.cap * c.neg
           /\ \E k \in 2..Len(c.thresholds) : c.tps[k] * RateDen >= call.floor * c.pos

IsMultiPr == call.fn = "plot_multi_class_pr_curve"

\* ceil(K/3): the least r with 3 * r >= K
CeilThird(K) == CHOOSE r \in 0..K : 3 * r >= K /\ 3 * (r - 1) < K

\* the positions in the registry of the cells the last call created
CreatedCells == (call.first + 1)..Len(axes)

\* C3: plot_multi_class_pr_curve on labels with K distinct classes creates
\* ceil(K/3)*3 cells and deletes ceil(K/3)*3 - K of them, none when K is a
\* multiple of 3.
C3_GridCells ==
    IsMultiPr =>
        \A K \in {Cardinality(Values(call.y))},
           deleted \in {{i \in CreatedCells : axes[i].deleted}} :
            /\ Cardinality(CreatedCells) = CeilThird(K) * 3
            /\ Cardinality(deleted) = CeilThird(K) * 3 - K
            /\ (K % 3 = 0 => deleted = {})

\* a grid of two rows with deleted cells
C3_Witness ==
    /\ IsMultiPr
    /\ Cardinality(Values(call.y)) = 4
    /\ Cardinality(CreatedCells) = 6
    /\ Cardinality({i \in CreatedCells : axes[i].deleted}) = 2

\* C4: the returned sequence holds every created cell: ceil(K/3)*3 of them;
\* position i <= K is the live cell drawn for the i-th smallest label (its
\* baseline, its curve and its title), positions K+1.. are the deleted
\* cells; and a deleted cell is never drawn on.
C4_ReturnedCells ==
    IsMultiPr =>
        \A lab \in {Ascending(Values(call.y))} :
            /\ \A i \in CreatedCells :
                  axes[i].deleted => axes[i] = [Blank EXCEPT !.deleted = TRUE]
            /\ call.outcome = "returned" =>
                  /\ Len(call.ret) = CeilThird(Len(lab)) * 3
                  /\ \A i \in 1..Len(call.ret) : call.ret[i] = call.first + i
                  /\ \A i \in 1..Len(lab) :
                        LET s == axes[call.ret[i]]
                        IN  /\ ~s.deleted
                            /\ s.cls = lab[i]
                            /\ Len(s.lines) = 2
                            /\ s.lines[1].kind = "hline"
                            /\ s.lines[1].num =
                                  Cardinality({j \in 1..Len(call.y) : call.y[j] = lab[i]})
                            /\ s.lines[1].den = Len(call.y)
                            /\ s.lines[2].kind = "pr"
                            /\ s.lines[2].cls = lab[i]
                  /\ \A i \in (Len(lab) + 1)..Len(call.ret) : axes[call.ret[i]].deleted

\* two classes that first appear in descending order, one deleted cell
C4_Witness ==
    /\ IsMultiPr
    /\ call.outcome = "returned"
    /\ Cardinality(Values(call.y)) = 2
    /\ call.y[1] > Nth(Values(call.y), 1)
    /\ Len(call.ret) = 3
    /\ axes[call.ret[3]].deleted

IsCmv == call.fn = "confusion_matrix_visual"

\* the labels of y_true and y_pred together
CmvLabels == Values(call.y_true) \cup Values(call.y_pred)

\* C5: the heatmap shows the transpose of the confusion matrix: the cell at
\* row p, column a holds the number of samples whose true label is the a-th
\* label and whose predicted label is the p-th.
C5_Transposed ==
    (IsCmv /\ call.outcome = "returned") =>
        \A lab \in {Ascending(CmvLabels)}, heat \in {axes[call.ret].heat} :
            /\ Len(heat) = Len(lab)
            /\ \A p \in 1..Len(lab), a \in 1..Len(lab) :
                  heat[p][a] =
                      Cardinality({k \in 1..Len(call.y_true) :
                                      /\ call.y_true[k] = lab[a]
                                      /\ call.y_pred[k] = lab[p]})
            /\ \A k \in 1..Len(axes[call.ret].annot) :
                  LET t == axes[call.ret].annot[k] IN t.text = heat[t.row][t.col]

\* a matrix that differs from its transpose
C5_Witness ==
    /\ IsCmv
    /\ call.outcome = "returned"
    /\ \E p \in 1..Len(axes[call.ret].heat), a \in 1..Len(axes[call.ret].heat) :
          /\ axes[call.ret].heat[p][a] = 0
          /\ axes[call.ret].heat[a][p] > 0

\* C6 as stated: a completed confusion_matrix_visual leaves N x N annotated
\* cells and N ticks on each axis, N the number of labels in the data.
C6_TicksEqualClasses ==
    (IsCmv /\ call.outcome = "returned") =>
        \A N \in {Cardinality(CmvLabels)}, s \in {axes[call.ret]} :
            /\ Len(s.annot) = N * N
            /\ Len(s.xticks) = N
            /\ Len(s.yticks) = N

\* C6, amended: a completed confusion_matrix_visual leaves N x N annotated
\* cells, and on each axis as many ticks as class_labels has display names,
\* labelled with those names in order.
C6_TicksEqualNames ==
    (IsCmv /\ call.outcome = "returned") =>
        \A N \in {Cardinality(CmvLabels)}, s \in {axes[call.ret]},
           m \in {Len(call.class_labels)} :
            /\ Len(s.annot) = N * N
            /\ Len(s.heat) = N
            /\ \A p \in 1..N : Len(s.heat[p]) = N
            /\ Len(s.xticks) = m
            /\ Len(s.yticks) = m
            /\ \A i \in 1..m : s.xticks[i] = 2 * i - 1 /\ s.yticks[i] = 2 * i - 1
            /\ s.xticklabels = call.class_labels
            /\ s.yticklabels = call.class_labels

\* more display names than labels in the data
C6_Witness ==
    /\ IsCmv
    /\ call.outcome = "returned"
    /\ Len(call.class_labels) > Cardinality(CmvLabels)
    /\ Len(axes[call.ret].xticks) > Len(axes[call.ret].heat)

IsPlotPr == call.fn = "plot_pr_curve"

\* C8: whenever plot_pr_curve draws, its baseline is the number of entries
\* of y_test equal to positive_class divided by the number of entries.
C8_Baseline ==
    (IsPlotPr /\ ~BinaryCurveRaises(call.y)) =>
        LET b == axes[Len(axes)].lines[1]
        IN  /\ b.kind = "hline"
            /\ b.den # 0
            /\ b.num * Len(call.y) =
                   Cardinality({j \in 1..Len(call.y) : call.y[j] = call.positive_class}) * b.den

\* positive_class 0, one entry of three equal to it: a baseline of 1/3
C8_Witness ==
    /\ IsPlotPr
    /\ call.outcome = "returned"
    /\ call.positive_class = 0
    /\ Len(call.y) = 3
    /\ 3 * axes[call.ret].lines[1].num = axes[call.ret].lines[1].den

IsMultiRoc == call.fn = "plot_multi_class_roc"

\* C9: a completed plot_multi_class_roc has drawn the diagonal first and
\* then one curve per class in ascending label order, K+1 lines; the i-th
\* curve is that of the labels binarized against the i-th smallest label and
\* of column i of the table.
C9_OneCurvePerClass ==
    (IsMultiRoc /\ call.outcome = "returned") =>
        \A lab \in {Ascending(Values(call.y))}, lines \in {axes[call.ret].lines} :
            /\ Len(lines) = Len(lab) + 1
            /\ lines[1].kind = "diag"
            /\ \A i \in 1..Len(lab) :
                  LET l == lines[i + 1]
                  IN  /\ l.kind = "roc"
                      /\ l.cls = lab[i]
                      /\ Len(l.y_true) = Len(call.y)
                      /\ \A j \in 1..Len(call.y) :
                            l.y_true[j] = (IF call.y[j] = lab[i] THEN 1 ELSE 0)
                      /\ Len(l.y_score) = Len(call.y)
                      /\ \A r \in 1..Len(call.y) : l.y_score[r] = call.preds[r][i]

\* three classes that do not first appear in ascending order
C9_Witness ==
    /\ IsMultiRoc
    /\ call.outcome = "returned"
    /\ Cardinality(Values(call.y)) = 3
    /\ call.y[1] > call.y[2]
    /\ Len(axes[call.ret].lines) = 4

\* one call of plot_roc or plot_multi_class_roc, as a step
C10_Step ==
    (ncalls' = ncalls + 1) =>
        LET a      == call'.ax
            old    == Len(axes)
            t      == IF a # 0 THEN a ELSE old + 1
            before == IF a # 0 THEN axes[a].lines ELSE <<>>
            after  == axes'[t].lines
            new    == SubSeq(after, Len(before) + 1, Len(after))
        IN  /\ Len(axes') = (IF a # 0 THEN old ELSE old + 1)
            /\ \A j \in 1..old : j # a => axes'[j] = axes[j]
            /\ SubSeq(after, 1, Len(before)) = before
            /\ call'.outcome = "returned" =>
                  /\ call'.ret = t
                  /\ new # <<>>
                  /\ new[1].kind = "diag"
                  /\ \A i \in 2..Len(new) : new[i].kind = "roc"
                  /\ call'.fn = "plot_roc" =>
                        /\ Len(new) = 2
                        /\ new[2].y_true = call'.y
                        /\ new[2].y_score = call'.p
                  /\ call'.fn = "plot_multi_class_roc" =>
                        Len(new) = Cardinality(Values(call'.y)) + 1

\* C10: plot_roc and plot_multi_class_roc draw on the surface the caller
\* passes, create none then and return that one; without one they create
\* exactly one surface, draw on it and return it.  Every other surface is
\* left as it was, and what a call draws is decided by its arguments alone.
C10_SurfaceFrame == [][C10_Step]_vars

\* a call drew on a surface that an earlier call of the other function had
\* drawn on, while another drawn surface exists
C10_Witness ==
    /\ ncalls >= 3
    /\ call.fn = "plot_roc"
    /\ call.outcome = "returned"
    /\ call.ax # 0
    /\ \E i \in 1..Len(axes[call.ax].lines) : axes[call.ax].lines[i].cls # -1
    /\ \E j \in 1..Len(axes) : j # call.ax /\ axes[j].lines # <<>>

====
